---- MODULE Spec2Model ----
(***************************************************************************)
(* x728ups: supervision of the X728 UPS board for the Raspberry Pi.        *)
(*                                                                         *)
(* Three units of execution (src/x728ups.py main, lines 329-347):          *)
(*   - monitor_shutdown  (PulseMonitor):    times pulses on GPIO 5         *)
(*   - monitor_pld       (PowerSupervisor): 1 s cycles over presence,      *)
(*                                          power loss, voltage, capacity  *)
(*   - main's loop       (TelemetryPublisher): drains log_queue, publishes,*)
(*                                          retries the MQTT connection    *)
(* plus the paho network thread, which runs mqtt.on_connect and            *)
(* mqtt.on_disconnect asynchronously.                                      *)
(*                                                                         *)
(* Each unit is checked under its own specification (SpecPulse, SpecPower, *)
(* SpecMqtt); the variables of the other units are left unchanged there.   *)
(* SpecCadence follows monitor_pld over a full telemetry period, in runs   *)
(* with few failed probes, power losses and slow sleeps.                   *)
(* SpecMqttLive adds the scheduling of the publisher's threads to SpecMqtt, *)
(* and SpecSystem runs the two monitors side by side over a short window.   *)
(* Each monitor only ever puts on the queue; the one get is main's.         *)
(***************************************************************************)
EXTENDS Integers, Sequences, FiniteSets, TLC

VARIABLES
    now_ms,         \* current_time_ms(): the clock monitor_shutdown reads (ms)
    shutdown_line,  \* GPIO 5 as the UPS drives it: [level, rises, moved]
    pm,             \* monitor_shutdown: [pc, pulse_start, wake, last_check]
    pulse_obs,      \* history: how the last timed pulse was classified
    os_cmds,        \* commands handed to do_command, in order
    log_queue,      \* multiprocessing.Queue of (topic, payload): the items put
                    \* and not yet got, in the order of the put calls
    now,            \* time.time() as monitor_pld reads it: whole seconds since
                    \* start (the fraction of a second is an input of the cycle)
    sup,            \* monitor_pld: [pc, last_ups_detected, last_pld, wait_start,
                    \*               count, calls]; pc is "run", "requesting" or
                    \*               "halted" (in request_shutdown), or "raised"
                    \*               (the process ended on an exception)
    gpio,           \* output lines: [boot_ok, system]
    cyc,            \* history: what the last cycle of monitor_pld read and did
    putting,        \* monitor_pld inside a cycle, after one of its puts: what is
                    \* left of the cycle (<<>> between two cycles)
    pub,            \* main's publisher loop: [pc, count, published]
    connected,      \* mqtt.connected (0 and False both read as not connected)
    net,            \* the paho client: [thread, link]
    retry           \* history of the reconnect attempts

pulseVars == <<now_ms, shutdown_line, pm, pulse_obs, os_cmds>>
powerVars == <<now, sup, gpio, cyc, putting>>
mqttVars == <<pub, connected, net, retry>>
vars == <<pulseVars, log_queue, powerVars, mqttVars>>

----------------------------------------------------------------------------
(* Program constants                                                       *)

REBOOT_PULSE_MINIMUM == 200
REBOOT_PULSE_MAXIMUM == 600
\* time.sleep(0.1), time.sleep(0.02) and time.sleep(5) of monitor_shutdown, in ms
POLL_SLEEP_MS == 100
SAMPLE_SLEEP_MS == 20
LOG_FLUSH_SLEEP_MS == 5000

MQTT_ROOT == "ups"

\* thresholds of monitor_pld
SHUTDOWN_BATTERY_CAPACITY == 50
\* SHUTDOWN_BATTERY_VOLTAGE = 3.6 V, in millivolts
SHUTDOWN_BATTERY_MILLIVOLTS == 3600
SHUTDOWN_SECONDS == 20
DATA_SEND_PERIOD == 60
SYSTEM_SHUTDOWN_REQUEST_DURATION == 4
\* time.sleep(1) at the end of each cycle of monitor_pld
CYCLE_SLEEP == 1
\* sys.float_info.max, the initial wait_start: above every value of the clock
\* (time.time() - sys.float_info.max is negative)
FLOAT_MAX == 2147483647
MQTT_RETRY_PERIOD == 600
\* read_voltage returns swapped * 1.25 / 1000 / 16 volts: 12800 steps per volt
VOLT_STEPS == 12800
\* read_capacity returns swapped / 256 percent: 256 steps per percent
PERCENT_STEPS == 256

(* Bounds of the model                                                     *)

\* granularity (ms) of the clock and of the instants at which GPIO 5 changes
Quantum == 20
\* a sleep returns no earlier than asked and at most this much (ms) later
MaxJitter == 20
\* the clock of monitor_shutdown stops advancing here (ms)
MaxTime == 900
\* rising edges the UPS produces on GPIO 5
MaxPulses == 2
\* monitor_pld starts no new cycle once its clock shows this many seconds
MaxSeconds == 62
\* iterations of the publisher loop
MaxIter == 1210
\* items waiting in log_queue when a producer is about to put one more
MaxQueue == 1
\* cycles in which the probe of the UPS fails
MaxAbsent == 2
\* times the power-loss line is read active after having been read inactive
MaxOutages == 2
\* failed probes, new power losses and seconds the clock ran ahead (see
\* MaxSlips), together, in one run
MaxIncidents == 3
\* cycles of monitor_pld after which the clock shows one second more than the
\* 1 s sleep accounts for (the work of the cycles adds up, or a cycle is slow)
MaxSlips == 1
\* the two monitors running side by side are followed over a window of this
\* many ms of monitor_shutdown's clock and this many seconds of monitor_pld's
\* (long enough for a power loss to outlast SHUTDOWN_SECONDS)
WindowMs == 700
WindowSeconds == 22
\* monitor_pld alone is followed over this many seconds of its clock, or over
\* MaxSeconds in the runs with no more incidents than this
WindowPower == 22
CadenceIncidents == 1

----------------------------------------------------------------------------
(* Events and commands                                                     *)

EV_SHUTDOWN == "Shutdown requested, halting RPi..."
EV_REBOOT == "Reboot requested, restarting RPi..."
EV_UPS_DETECTED == "UPS detected"
EV_UPS_NOT_DETECTED == "UPS not detected"
EV_POWER_RESTORED == "Power restored"

Digits == <<"0", "1", "2", "3", "4", "5", "6", "7", "8", "9">>

\* a natural number in decimal, as an f-string prints an int
RECURSIVE Dec(_)
Dec(n) == IF n < 10 THEN Digits[n + 1] ELSE Dec(n \div 10) \o Digits[(n % 10) + 1]

\* format(x, "0.2f") and format(x, "0.1f") of x given in hundredths, in tenths
Format2(h) == Dec(h \div 100) \o "." \o Digits[((h \div 10) % 10) + 1]
                  \o Digits[(h % 10) + 1]
Format1(t) == Dec(t \div 10) \o "." \o Digits[(t % 10) + 1]

\* The float read_voltage returns for a swapped word s is s * 1.25 / 1000 / 16:
\* s * 1.25 and the division by 16 are exact, the division by 1000 rounds
\* s / 800 to 53 significant bits. Exponent(s) is the binary exponent of s / 800
\* and Remainder25(s) tells how s / 800 was rounded: 0 exact, 1..12 down,
\* 13..24 up.
RECURSIVE Exponent(_)
Exponent(s) ==
    IF s >= 1600 THEN Exponent(s \div 2) + 1
    ELSE IF s < 800 THEN Exponent(s * 2) - 1
    ELSE 0

RECURSIVE Pow2Mod25(_)
Pow2Mod25(q) == IF q = 0 THEN 1 ELSE (2 * Pow2Mod25(q - 1)) % 25

Remainder25(s) == ((s % 25) * Pow2Mod25(47 - Exponent(s))) % 25

\* the voltage (steps of 1/12800 V) rounded to hundredths of a volt as
\* format(voltage, "0.2f") rounds the float: to the nearest hundredth; a
\* reading half way between two hundredths goes where the rounding of the
\* division left the float, and to the even hundredth if that was exact
Hundredths(voltage) ==
    LET lo == (voltage * 100) \div VOLT_STEPS
        rem == (voltage * 100) % VOLT_STEPS
    IN IF 2 * rem < VOLT_STEPS THEN lo
       ELSE IF 2 * rem > VOLT_STEPS THEN lo + 1
       ELSE IF Remainder25(voltage) = 0 THEN (IF lo % 2 = 0 THEN lo ELSE lo + 1)
       ELSE IF Remainder25(voltage) >= 13 THEN lo + 1
       ELSE lo

\* the capacity (steps of 1/256 %, exact as a float) rounded to tenths of a
\* percent as format(capacity, "0.1f") rounds it: half way goes to the even tenth
Tenths(capacity) ==
    LET lo == (capacity * 10) \div PERCENT_STEPS
        rem == (capacity * 10) % PERCENT_STEPS
    IN IF 2 * rem < PERCENT_STEPS THEN lo
       ELSE IF 2 * rem > PERCENT_STEPS THEN lo + 1
       ELSE IF lo % 2 = 0 THEN lo ELSE lo + 1

EV_POWER_LOSS ==
    "Power loss detected - shutting down in " \o Dec(SHUTDOWN_SECONDS) \o " seconds"
EV_OUTAGE ==
    "Power loss detected for at least " \o Dec(SHUTDOWN_SECONDS)
        \o " seconds - request shutdown now"
\* the two reasons based on a reading carry the reading and the threshold
EV_LOW_VOLTAGE(voltage) ==
    "Voltage " \o Format2(Hundredths(voltage)) \o "V below threshold "
        \o Format2(SHUTDOWN_BATTERY_MILLIVOLTS \div 10)
        \o "V - request shutdown now"
EV_LOW_CAPACITY(capacity) ==
    "Capacity " \o Format1(Tenths(capacity)) \o "% below threshold "
        \o Format1(SHUTDOWN_BATTERY_CAPACITY * 10)
        \o "% - request shutdown now"

\* log_event: one (topic, payload) put on the queue
log_event(q, reason) == Append(q, <<MQTT_ROOT \o "/event", reason>>)

\* do_command: subprocess.run of one command, which returns when the command
\* has ended; do_sync is do_command("sync")
do_command(cmds, command) == Append(cmds, command)
do_sync(cmds) == do_command(cmds, "sync")

\* do_shutdown / do_reboot: do_docker_stop (a no-op), do_sync, do_command
do_shutdown(cmds) == do_command(do_sync(cmds), "sudo /sbin/shutdown -h now")
do_reboot(cmds) == do_command(do_sync(cmds), "sudo /sbin/shutdown -r now")

RECURSIVE CountIn(_, _)
CountIn(s, x) ==
    IF s = <<>> THEN 0
    ELSE (IF Head(s) = x THEN 1 ELSE 0) + CountIn(Tail(s), x)

EventCount(reason) == CountIn(log_queue, <<MQTT_ROOT \o "/event", reason>>)

----------------------------------------------------------------------------
(* monitor_shutdown                                                        *)

\* line 238: the test made after each 20 ms sleep while the line reads high
IsShutdownPulse_inclusive(elapsed) == elapsed >= REBOOT_PULSE_MAXIMUM
IsShutdownPulse(elapsed) == elapsed > REBOOT_PULSE_MAXIMUM

\* line 243: the test made once the line reads low
IsRebootPulse_inclusive(elapsed) == elapsed >= REBOOT_PULSE_MINIMUM
IsRebootPulse(elapsed) == elapsed > REBOOT_PULSE_MINIMUM

\* line 234: a pulse is timed from the sample that first read high
StartPulse_stale(m, t) == [m EXCEPT !.pc = "while", !.last_check = 0]
StartPulse(m, t) == [m EXCEPT !.pc = "while", !.pulse_start = t, !.last_check = 0]

\* pulse_obs: outcome of the last classification, the elapsed time it compared,
\* the clock at that moment, the elapsed time at the last sample that read
\* high, the elapsed time the last test of line 238 that let the loop go on
\* had compared (0 if the pulse had none) and the level of the line when the
\* decision was taken
NoObs == [outcome |-> "none", measured |-> 0, at |-> 0, high_el |-> 0,
          checked |-> 0, level |-> 0]

\* elapsed time at the last sample of the while loop that read high: each such
\* sample is followed at once by the 20 ms sleep that set m.wake (before the
\* first one, the sample of line 231 that started the pulse)
LastHigh(m) == IF m.wake - SAMPLE_SLEEP_MS >= m.pulse_start
               THEN m.wake - SAMPLE_SLEEP_MS - m.pulse_start ELSE 0

\* lines 231-235: sample the idle line; sleep 100 ms if low, else start timing
PM_Poll ==
    /\ pm.pc = "poll"
    /\ now_ms >= pm.wake
    /\ IF shutdown_line.level = 0
       THEN /\ pm' = [pm EXCEPT !.wake = now_ms + POLL_SLEEP_MS]
            /\ UNCHANGED pulse_obs
       ELSE /\ pm' = StartPulse(pm, now_ms)
            /\ UNCHANGED pulse_obs
    /\ UNCHANGED <<now_ms, shutdown_line, os_cmds, log_queue, powerVars, mqttVars>>

\* lines 236-237 and 243-245: the while test; high: sleep 20 ms; low: leave the
\* loop and compare the elapsed time against the reboot minimum
PM_While ==
    /\ pm.pc = "while"
    /\ LET elapsed == now_ms - pm.pulse_start IN
       IF shutdown_line.level = 1
       THEN /\ pm' = [pm EXCEPT !.pc = "check", !.wake = now_ms + SAMPLE_SLEEP_MS]
            /\ UNCHANGED <<log_queue, pulse_obs>>
       ELSE IF IsRebootPulse(elapsed)
       THEN /\ log_queue' = log_event(log_queue, EV_REBOOT)
            /\ pm' = [pm EXCEPT !.pc = "reboot_wait"]
            /\ pulse_obs' = [outcome |-> "reboot", measured |-> elapsed,
                             at |-> now_ms, high_el |-> LastHigh(pm),
                             checked |-> pm.last_check, level |-> 0]
       ELSE /\ pm' = [pm EXCEPT !.pc = "poll"]
            /\ pulse_obs' = [outcome |-> "discard", measured |-> elapsed,
                             at |-> now_ms, high_el |-> LastHigh(pm),
                             checked |-> pm.last_check, level |-> 0]
            /\ UNCHANGED log_queue
    /\ UNCHANGED <<now_ms, shutdown_line, os_cmds, powerVars, mqttVars>>

\* lines 238-240: after the 20 ms sleep, read the clock and compare the elapsed
\* time against the maximum; the line is not read again before the decision
PM_Check ==
    /\ pm.pc = "check"
    /\ now_ms >= pm.wake
    /\ LET elapsed == now_ms - pm.pulse_start IN
       IF IsShutdownPulse(elapsed)
       THEN /\ log_queue' = log_event(log_queue, EV_SHUTDOWN)
            /\ pm' = [pm EXCEPT !.pc = "shutdown_wait"]
            /\ pulse_obs' = [outcome |-> "shutdown", measured |-> elapsed,
                             at |-> now_ms, high_el |-> LastHigh(pm),
                             checked |-> pm.last_check,
                             level |-> shutdown_line.level]
       ELSE /\ pm' = [pm EXCEPT !.pc = "while", !.last_check = elapsed]
            /\ UNCHANGED <<log_queue, pulse_obs>>
    /\ UNCHANGED <<now_ms, shutdown_line, os_cmds, powerVars, mqttVars>>

\* lines 240-241 and 217: the 5 s sleep ends and do_shutdown runs sync
PM_ShutdownSync ==
    /\ pm.pc = "shutdown_wait"
    /\ now_ms' = now_ms + LOG_FLUSH_SLEEP_MS
    /\ os_cmds' = do_sync(os_cmds)
    /\ pm' = [pm EXCEPT !.pc = "shutdown_sync"]
    /\ UNCHANGED <<shutdown_line, pulse_obs, log_queue, powerVars, mqttVars>>

\* lines 218 and 242: sync has returned; the shutdown command, then spin forever
PM_ShutdownCommand ==
    /\ pm.pc = "shutdown_sync"
    /\ os_cmds' = do_command(os_cmds, "sudo /sbin/shutdown -h now")
    /\ pm' = [pm EXCEPT !.pc = "halted"]
    /\ UNCHANGED <<now_ms, shutdown_line, pulse_obs, log_queue, powerVars, mqttVars>>

\* lines 245-246 and 223: the 5 s sleep ends and do_reboot runs sync
PM_RebootSync ==
    /\ pm.pc = "reboot_wait"
    /\ now_ms' = now_ms + LOG_FLUSH_SLEEP_MS
    /\ os_cmds' = do_sync(os_cmds)
    /\ pm' = [pm EXCEPT !.pc = "reboot_sync"]
    /\ UNCHANGED <<shutdown_line, pulse_obs, log_queue, powerVars, mqttVars>>

\* lines 224 and 247: sync has returned; the reboot command, then spin forever
PM_RebootCommand ==
    /\ pm.pc = "reboot_sync"
    /\ os_cmds' = do_command(os_cmds, "sudo /sbin/shutdown -r now")
    /\ pm' = [pm EXCEPT !.pc = "halted"]
    /\ UNCHANGED <<now_ms, shutdown_line, pulse_obs, log_queue, powerVars, mqttVars>>

\* The clock, in steps of Quantum. It advances while monitor_shutdown sleeps,
\* and also between two of its reads (lines 234, 238 and 243 each read
\* current_time_ms() anew): the monitor may be late on the wake-up time of its
\* last sleep by up to MaxJitter, before or after the test that follows it.
Tick ==
    /\ pm.pc \in {"poll", "while", "check"}
    /\ now_ms < pm.wake + MaxJitter
    /\ now_ms < MaxTime
    /\ now_ms' = now_ms + Quantum
    /\ shutdown_line' = [shutdown_line EXCEPT !.moved = FALSE]
    /\ UNCHANGED <<pm, pulse_obs, os_cmds, log_queue, powerVars, mqttVars>>

\* The UPS raises GPIO 5 (GPIO.input(GPIO_X728_SHUTDOWN) reads 1 from now on);
\* the line changes at most once per instant of the clock
LineRise ==
    /\ shutdown_line.level = 0
    /\ shutdown_line.rises < MaxPulses
    /\ ~shutdown_line.moved
    /\ pm.pc \in {"poll", "while", "check"}
    /\ shutdown_line' = [level |-> 1, rises |-> shutdown_line.rises + 1,
                         moved |-> TRUE]
    /\ UNCHANGED <<now_ms, pm, pulse_obs, os_cmds, log_queue, powerVars, mqttVars>>

\* The UPS releases GPIO 5
LineFall ==
    /\ shutdown_line.level = 1
    /\ ~shutdown_line.moved
    /\ pm.pc \in {"poll", "while", "check"}
    /\ shutdown_line' = [shutdown_line EXCEPT !.level = 0, !.moved = TRUE]
    /\ UNCHANGED <<now_ms, pm, pulse_obs, os_cmds, log_queue, powerVars, mqttVars>>


----------------------------------------------------------------------------
(* monitor_pld                                                             *)

\* struct.unpack("<H", struct.pack(">H", read)): the two bytes of the word swapped
SwapBytes(read) == (read % 256) * 256 + (read \div 256)

\* read_voltage, in steps of 1/12800 V; read_capacity, in steps of 1/256 %
read_voltage(word) == SwapBytes(word)
read_capacity(word) == SwapBytes(word)

\* register words the fuel gauge returns: 3.59992 V and 3.6 V; 49.996 % and 50 %
VoltageWords == {65459, 180}
CapacityWords == {65329, 50}

\* log_data: the voltage event, then the capacity event
log_data_capacity_first(q, voltage, capacity) ==
    Append(Append(q, <<MQTT_ROOT \o "/capacity", capacity>>),
           <<MQTT_ROOT \o "/voltage", voltage>>)
log_data(q, voltage, capacity) ==
    Append(Append(q, <<MQTT_ROOT \o "/voltage", voltage>>),
           <<MQTT_ROOT \o "/capacity", capacity>>)

\* check_power: the events of a power-state change and the new wait_start
check_power_on_restore(q, pld, ups_pld, wait_start, t) ==
    IF pld
    THEN [q |-> IF ~ups_pld THEN log_event(q, EV_POWER_LOSS) ELSE q,
          wait_start |-> wait_start]
    ELSE [q |-> IF ups_pld THEN log_event(q, EV_POWER_RESTORED) ELSE q,
          wait_start |-> IF ups_pld THEN t ELSE wait_start]
check_power_moves_on_loss(q, pld, ups_pld, wait_start, t) ==
    IF pld
    THEN [q |-> IF ~ups_pld THEN log_event(q, EV_POWER_LOSS) ELSE q,
          wait_start |-> IF ~ups_pld THEN t ELSE wait_start]
    ELSE [q |-> IF ups_pld THEN log_event(q, EV_POWER_RESTORED) ELSE q,
          wait_start |-> t]
check_power(q, pld, ups_pld, wait_start, t) ==
    IF pld
    THEN [q |-> IF ~ups_pld THEN log_event(q, EV_POWER_LOSS) ELSE q,
          wait_start |-> wait_start]
    ELSE [q |-> IF ups_pld THEN log_event(q, EV_POWER_RESTORED) ELSE q,
          wait_start |-> t]

\* line 265: power lost and the watermark more than SHUTDOWN_SECONDS old
OutageExpired_inclusive(ups_pld, t, wait_start) ==
    ups_pld /\ t - wait_start >= SHUTDOWN_SECONDS
OutageExpired(ups_pld, t, wait_start) ==
    ups_pld /\ t - wait_start > SHUTDOWN_SECONDS

\* line 269: voltage < SHUTDOWN_BATTERY_VOLTAGE
LowVoltage(voltage) == voltage * 1000 < SHUTDOWN_BATTERY_MILLIVOLTS * VOLT_STEPS

\* line 273: capacity < SHUTDOWN_BATTERY_CAPACITY
LowCapacity(capacity) == capacity < SHUTDOWN_BATTERY_CAPACITY * PERCENT_STEPS

\* request_shutdown, up to its sleep: SYSTEM driven high; the caller never
\* gets control back. c is [q, calls, halted, system, seen]: seen is what the
\* cycle had put on the queue when SYSTEM was driven high.
request_shutdown_returns(c) == [c EXCEPT !.calls = @ + 1]
request_shutdown(c) ==
    [c EXCEPT !.calls = @ + 1, !.halted = TRUE, !.system = 1, !.seen = c.q]

\* check_conditions: the three tests in order; a test is reached only if no
\* earlier one called request_shutdown
check_conditions_request_first(c, ups_pld, wait_start, voltage, capacity, t) ==
    IF \/ OutageExpired(ups_pld, t, wait_start)
       \/ LowVoltage(voltage)
       \/ LowCapacity(capacity)
    THEN request_shutdown(c)
    ELSE c
check_conditions(c, ups_pld, wait_start, voltage, capacity, t) ==
    LET c1 == IF OutageExpired(ups_pld, t, wait_start)
              THEN request_shutdown([c EXCEPT !.q = log_event(@, EV_OUTAGE)])
              ELSE c
        c2 == IF ~c1.halted /\ LowVoltage(voltage)
              THEN request_shutdown([c1 EXCEPT !.q = log_event(@, EV_LOW_VOLTAGE(voltage))])
              ELSE c1
        c3 == IF ~c2.halted /\ LowCapacity(capacity)
              THEN request_shutdown([c2 EXCEPT !.q = log_event(@, EV_LOW_CAPACITY(capacity))])
              ELSE c2
    IN c3

\* line 305: count % DATA_SEND_PERIOD == 0
TelemetryDue_early(count) == (count + 1) % DATA_SEND_PERIOD = 0
TelemetryDue(count) == count % DATA_SEND_PERIOD = 0

\* time.time() returns a float; the model keeps the whole seconds of a reading.
\* Line 265 compares time.time() - wait_start with a whole number of seconds:
\* the outcome is that of the two readings' whole seconds, one second added
\* when the reading of line 265 lies later within its second than the reading
\* kept in wait_start lies within its own (later). ReadClock is the reading
\* rounded up that way.
ReadClock(t, later) == IF later THEN t + 1 ELSE t

\* cyc: whether a cycle has run, the clock it read, what the probe, the
\* power-loss line and the fuel gauge returned, last_pld and count as the cycle
\* found them, whether it changed wait_start and whether it lowered it, the
\* items it put on the queue, and the history fields run, last_good (clock of
\* the last cycle that read the power-loss line inactive, -1 if none), absents
\* and outages (how often the probe failed, and the power was newly lost);
\* further history: prev_present (what the probe returned in the cycle before),
\* eval_pld and prev_eval (the power-loss line as read by the last cycle that
\* read it, this one included, and by the last one before this cycle),
\* presence_ev / power_ev and their prev_ fields (the last presence and power
\* event queued, up to this cycle and before it), done (cycles so far that ran
\* to their end with the UPS present), at_request (what this cycle had queued
\* when it called request_shutdown), edge (the fraction of a second decided the
\* test of line 265: the reading lay SHUTDOWN_SECONDS whole seconds after the
\* one kept in wait_start, and later within its second), slips (how often the
\* clock ran a second ahead)
NoCycle == [ran |-> FALSE, t |-> 0, present |-> FALSE, pld |-> FALSE,
            prev_pld |-> FALSE, got |-> 0, voltage |-> 0, capacity |-> 0,
            wm_changed |-> FALSE, wm_lowered |-> FALSE,
            count_before |-> 0, emitted |-> <<>>,
            run |-> 0, last_good |-> -1, absents |-> 0, outages |-> 0,
            prev_present |-> FALSE, eval_pld |-> FALSE, prev_eval |-> FALSE,
            presence_ev |-> "none", prev_presence_ev |-> "none",
            power_ev |-> "none", prev_power_ev |-> "none",
            done |-> 0, at_request |-> <<>>, edge |-> FALSE, slips |-> 0]

\* history: the last event of a pair found in what a cycle queued, else the
\* last one known before
LastOf(q, first, second, before) ==
    LET f == <<MQTT_ROOT \o "/event", first>>
        g == <<MQTT_ROOT \o "/event", second>>
        hits == {i \in 1..Len(q) : q[i] \in {f, g}}
    IN IF hits = {} THEN before
       ELSE LET last == CHOOSE i \in hits : \A j \in hits : j <= i
            IN IF q[last] = f THEN first ELSE second

\* history: length of the run of consecutive present cycles reading power loss
\* that began at the first cycle or right after a present cycle reading power
\* good; 0 outside such a run
NextRun(present, pld) ==
    IF ~(present /\ pld) THEN 0
    ELSE IF ~cyc.ran \/ (cyc.present /\ ~cyc.pld) THEN 1
    ELSE IF cyc.run > 0 THEN cyc.run + 1
    ELSE 0

\* bus.read_word_data (lines 132, 139) returns the register word or raises
\* OSError (an I2C transfer that fails); nothing in monitor_pld catches it
ReadError == -1
VoltageReads == VoltageWords \cup {ReadError}
CapacityReads == CapacityWords \cup {ReadError}

\* lines 287-315, the UPS answering the probe: what one cycle of the loop does,
\* given what it reads (cread is not read when vread is ReadError). The clock
\* is read once: on line 260 when the power-loss line reads inactive, on line
\* 265 when it reads active. The result: the items the cycle puts, in order
\* (items: still to put, put: already put), how it ends ("sleep": line 315,
\* "request": in request_shutdown, "raise": on the exception of a read), and
\* the local variables, SYSTEM and the history at its end.
PresentCycle(pld, vread, cread, later) ==
    LET t == now
        q0 == IF ~sup.last_ups_detected
              THEN log_event(<<>>, EV_UPS_DETECTED) ELSE <<>>
        cp == check_power(q0, pld, sup.last_pld, sup.wait_start, t)
        got == IF vread = ReadError THEN 0 ELSE IF cread = ReadError THEN 1 ELSE 2
        voltage == IF got >= 1 THEN read_voltage(vread) ELSE 0
        capacity == IF got = 2 THEN read_capacity(cread) ELSE 0
        c0 == [q |-> cp.q, calls |-> sup.calls, halted |-> FALSE,
               system |-> gpio.system, seen |-> <<>>]
        cc == IF got = 2
              THEN check_conditions(c0, pld, cp.wait_start, voltage, capacity,
                                    ReadClock(t, later))
              ELSE c0
        ended == got = 2 /\ ~cc.halted
        q2 == IF ended /\ TelemetryDue(sup.count)
              THEN log_data(cc.q, voltage, capacity) ELSE cc.q
    IN [items |-> q2,
        put |-> <<>>,
        ends |-> IF got < 2 THEN "raise" ELSE IF cc.halted THEN "request"
                 ELSE "sleep",
        system |-> cc.system,
        sup |-> [pc |-> IF got < 2 THEN "raised"
                        ELSE IF cc.halted THEN "requesting" ELSE "run",
                 last_ups_detected |-> IF ended THEN TRUE
                                       ELSE sup.last_ups_detected,
                 last_pld |-> pld,
                 wait_start |-> cp.wait_start,
                 count |-> IF ended THEN sup.count + 1 ELSE sup.count,
                 calls |-> cc.calls],
        cyc |-> [ran |-> TRUE, t |-> t, present |-> TRUE, pld |-> pld,
                 prev_pld |-> sup.last_pld, got |-> got, voltage |-> voltage,
                 capacity |-> capacity,
                 wm_changed |-> cp.wait_start # sup.wait_start,
                 wm_lowered |-> cp.wait_start < sup.wait_start,
                 count_before |-> sup.count, emitted |-> q2,
                 run |-> NextRun(TRUE, pld),
                 last_good |-> IF pld THEN cyc.last_good ELSE t,
                 absents |-> cyc.absents,
                 outages |-> IF pld /\ ~sup.last_pld THEN cyc.outages + 1
                             ELSE cyc.outages,
                 prev_present |-> cyc.ran /\ cyc.present,
                 eval_pld |-> pld, prev_eval |-> cyc.eval_pld,
                 presence_ev |-> LastOf(q2, EV_UPS_DETECTED, EV_UPS_NOT_DETECTED,
                                        cyc.presence_ev),
                 prev_presence_ev |-> cyc.presence_ev,
                 power_ev |-> LastOf(q2, EV_POWER_LOSS, EV_POWER_RESTORED,
                                     cyc.power_ev),
                 prev_power_ev |-> cyc.power_ev,
                 done |-> IF ended THEN cyc.done + 1 ELSE cyc.done,
                 at_request |-> cc.seen,
                 edge |-> got = 2 /\ pld /\ later
                          /\ t - cp.wait_start = SHUTDOWN_SECONDS,
                 slips |-> cyc.slips]]

\* lines 287-315, the probe failing: nothing else is read
AbsentCycle_repeats ==
    LET q2 == log_event(<<>>, EV_UPS_NOT_DETECTED)
    IN [items |-> q2,
        put |-> <<>>,
        ends |-> "sleep",
        system |-> gpio.system,
        sup |-> [sup EXCEPT !.last_ups_detected = FALSE],
        cyc |-> [ran |-> TRUE, t |-> now, present |-> FALSE, pld |-> FALSE,
                 prev_pld |-> sup.last_pld, got |-> 0, voltage |-> 0,
                 capacity |-> 0,
                 wm_changed |-> FALSE, wm_lowered |-> FALSE,
                 count_before |-> sup.count, emitted |-> q2, run |-> 0,
                 last_good |-> cyc.last_good, absents |-> cyc.absents + 1,
                 outages |-> cyc.outages,
                 prev_present |-> cyc.ran /\ cyc.present,
                 eval_pld |-> cyc.eval_pld, prev_eval |-> cyc.eval_pld,
                 presence_ev |-> LastOf(q2, EV_UPS_DETECTED, EV_UPS_NOT_DETECTED,
                                        cyc.presence_ev),
                 prev_presence_ev |-> cyc.presence_ev,
                 power_ev |-> cyc.power_ev, prev_power_ev |-> cyc.power_ev,
                 done |-> cyc.done, at_request |-> <<>>, edge |-> FALSE,
                 slips |-> cyc.slips]]
AbsentCycle ==
    LET q2 == IF sup.last_ups_detected
              THEN log_event(<<>>, EV_UPS_NOT_DETECTED) ELSE <<>>
    IN [items |-> q2,
        put |-> <<>>,
        ends |-> "sleep",
        system |-> gpio.system,
        sup |-> [sup EXCEPT !.last_ups_detected = FALSE],
        cyc |-> [ran |-> TRUE, t |-> now, present |-> FALSE, pld |-> FALSE,
                 prev_pld |-> sup.last_pld, got |-> 0, voltage |-> 0,
                 capacity |-> 0,
                 wm_changed |-> FALSE, wm_lowered |-> FALSE,
                 count_before |-> sup.count, emitted |-> q2, run |-> 0,
                 last_good |-> cyc.last_good, absents |-> cyc.absents + 1,
                 outages |-> cyc.outages,
                 prev_present |-> cyc.ran /\ cyc.present,
                 eval_pld |-> cyc.eval_pld, prev_eval |-> cyc.eval_pld,
                 presence_ev |-> LastOf(q2, EV_UPS_DETECTED, EV_UPS_NOT_DETECTED,
                                        cyc.presence_ev),
                 prev_presence_ev |-> cyc.presence_ev,
                 power_ev |-> cyc.power_ev, prev_power_ev |-> cyc.power_ev,
                 done |-> cyc.done, at_request |-> <<>>, edge |-> FALSE,
                 slips |-> cyc.slips]]

\* what the bound MaxIncidents counts, in a history record
Incidents(c) == c.outages + c.absents + c.slips

\* The end of a cycle r that does not call request_shutdown, after its last
\* put: the cycle sleeps 1 s (line 315), or the exception of a read leaves
\* monitor_pld and the process ends. After the sleep the next reading of the
\* clock is 1 s later, or 2 s when the work of the cycles since the clock last
\* ran ahead has added up to a second. The local variables of monitor_pld are
\* seen by no other process: the model sets them here.
EndCycle(r) ==
    /\ sup' = r.sup
    /\ UNCHANGED gpio
    /\ \E slip \in {0, 1} :
          /\ slip = 1 => /\ r.ends = "sleep"
                          /\ cyc.slips < MaxSlips
                          /\ Incidents(r.cyc) < MaxIncidents
          /\ now' = IF r.ends = "sleep" THEN now + CYCLE_SLEEP + slip ELSE now
          /\ cyc' = [r.cyc EXCEPT !.slips = @ + slip]

\* The puts of a cycle r (lines 291, 256/259, 266/270/274, 191-192) are
\* separate operations on the queue, each of which takes and releases it:
\* another process may put, and main may get, between two of them. This is
\* the next put of r; the last one is followed by the end of the cycle, unless
\* the cycle goes on into request_shutdown.
PutNext(r) ==
    IF r.items = <<>>
    THEN /\ UNCHANGED log_queue
         /\ IF r.ends = "request"
            THEN putting' = <<r>> /\ UNCHANGED <<now, sup, gpio, cyc>>
            ELSE putting' = <<>> /\ EndCycle(r)
    ELSE LET rest == [r EXCEPT !.items = Tail(@), !.put = Append(@, Head(r.items))]
         IN /\ log_queue' = Append(log_queue, Head(r.items))
            /\ IF rest.items = <<>> /\ r.ends # "request"
               THEN putting' = <<>> /\ EndCycle(rest)
               ELSE /\ putting' = <<rest>>
                    /\ UNCHANGED <<now, sup, gpio, cyc>>

\* One iteration of the loop of monitor_pld up to its first put, with what
\* detect_ups, detect_pld, the two read_word_data and time.time() return
SUP_Cycle ==
    /\ sup.pc = "run"
    /\ putting = <<>>
    /\ now < MaxSeconds
    /\ \E ups_detected \in BOOLEAN :
          IF ups_detected
          THEN \E pld \in BOOLEAN, vread \in VoltageReads, cread \in CapacityReads :
                  /\ vread = ReadError => cread = ReadError
                  /\ (pld /\ ~sup.last_pld) =>
                        /\ cyc.outages < MaxOutages
                        /\ Incidents(cyc) < MaxIncidents
                  /\ \E later \in (IF pld /\ cread # ReadError THEN BOOLEAN
                                   ELSE {FALSE}) :
                        PutNext(PresentCycle(pld, vread, cread, later))
          ELSE /\ cyc.absents < MaxAbsent
               /\ Incidents(cyc) < MaxIncidents
               /\ PutNext(AbsentCycle)
    /\ UNCHANGED <<pulseVars, mqttVars>>

\* the next put of the cycle under way
SUP_Put ==
    /\ putting # <<>>
    /\ putting[1].items # <<>>
    /\ PutNext(putting[1])
    /\ UNCHANGED <<pulseVars, mqttVars>>

\* request_shutdown, lines 181-183, called by check_conditions after the put
\* of the reason: SYSTEM is driven high and the 4 s sleep begins
SUP_Request ==
    /\ putting # <<>>
    /\ putting[1].items = <<>>
    /\ LET r == putting[1]
       IN /\ gpio' = [gpio EXCEPT !.system = r.system]
          /\ sup' = r.sup
          /\ cyc' = r.cyc
    /\ putting' = <<>>
    /\ UNCHANGED <<pulseVars, log_queue, now, mqttVars>>

\* request_shutdown, lines 183-186: after the 4 s sleep SYSTEM is released and
\* the process spins
SUP_Release_held ==
    /\ sup.pc = "requesting"
    /\ now' = now + SYSTEM_SHUTDOWN_REQUEST_DURATION
    /\ sup' = [sup EXCEPT !.pc = "halted"]
    /\ UNCHANGED <<pulseVars, log_queue, gpio, cyc, putting, mqttVars>>
SUP_Release ==
    /\ sup.pc = "requesting"
    /\ now' = now + SYSTEM_SHUTDOWN_REQUEST_DURATION
    /\ gpio' = [gpio EXCEPT !.system = 0]
    /\ sup' = [sup EXCEPT !.pc = "halted"]
    /\ UNCHANGED <<pulseVars, log_queue, cyc, putting, mqttVars>>


----------------------------------------------------------------------------
(* main's publisher loop, mqtt.py                                          *)

\* x728ups.py line 342: count % MQTT_RETRY_PERIOD == MQTT_RETRY_PERIOD - 1
RetryDue_twice(count) ==
    count % MQTT_RETRY_PERIOD \in {MQTT_RETRY_PERIOD - 1, 0}
RetryDue(count) == count % MQTT_RETRY_PERIOD = MQTT_RETRY_PERIOD - 1

\* mqtt.py line 63: if not connected
ShouldReconnect_always(flag) == TRUE
ShouldReconnect(flag) == ~flag

\* mqtt.py on_connect: only rc == 0 sets the flag
on_connect_any(flag, rc) == TRUE
on_connect(flag, rc) == IF rc = 0 THEN TRUE ELSE flag

\* mqtt.py on_disconnect
on_disconnect(flag) == FALSE

\* CONNACK return codes the broker answers with: accepted, not authorised
ConnackCodes == {0, 5}

\* items the monitors put on the queue: an event of monitor_pld, a reading of
\* monitor_pld, an event of monitor_shutdown
SampleItems == {<<MQTT_ROOT \o "/event", EV_UPS_DETECTED>>,
                <<MQTT_ROOT \o "/voltage", 46080>>,
                <<MQTT_ROOT \o "/event", EV_REBOOT>>}

\* retry: reconnect() calls so far, the flag as line 63 last read it, the flag
\* at the moment of the last call and as line 63 had read it for that call,
\* count at the last call, the iterations between the last two calls, whether
\* the flag was ever set, and whether the last call raised
NoRetry == [attempts |-> 0, flag_at_check |-> FALSE, flag_at_call |-> FALSE,
            read_for_call |-> FALSE, last |-> 0, gap |-> 0, ever |-> FALSE,
            failed |-> FALSE]

\* mqtt.init, called at x728ups.py line 337: connect and start the network
\* thread; ConnectionRefusedError is logged; any other exception ends main
PUB_Init ==
    /\ pub.pc = "init"
    /\ \E outcome \in {"ok", "refused", "error"} :
          /\ net' = IF outcome = "ok" THEN [thread |-> TRUE, link |-> "pending"]
                    ELSE net
          /\ pub' = [pub EXCEPT !.pc = IF outcome = "error" THEN "crashed"
                                       ELSE "top"]
    /\ UNCHANGED <<pulseVars, powerVars, log_queue, connected, retry>>

\* x728ups.py lines 341-342: count += 1 and the retry test
PUB_Count ==
    /\ pub.pc = "top"
    /\ pub.count < MaxIter
    /\ pub' = [pub EXCEPT !.pc = IF RetryDue(pub.count + 1) THEN "check"
                                 ELSE "get",
                           !.count = pub.count + 1]
    /\ UNCHANGED <<pulseVars, powerVars, log_queue, connected, net, retry>>

\* mqtt.py line 63: attempt_mqtt_reconnect reads the flag
PUB_Check ==
    /\ pub.pc = "check"
    /\ pub' = [pub EXCEPT !.pc = IF ShouldReconnect(connected) THEN "call"
                                 ELSE "get"]
    /\ retry' = [retry EXCEPT !.flag_at_check = connected]
    /\ UNCHANGED <<pulseVars, powerVars, log_queue, connected, net>>

\* mqtt.py lines 64-68: mqtt_client.reconnect(); ConnectionRefusedError is
\* logged, any other exception ends main
PUB_Reconnect ==
    /\ pub.pc = "call"
    /\ \E outcome \in {"ok", "refused", "error"} :
          /\ net' = [net EXCEPT !.link = IF outcome = "ok" THEN "pending"
                                         ELSE "down"]
          /\ pub' = [pub EXCEPT !.pc = IF outcome = "error" THEN "crashed"
                                       ELSE "get"]
          /\ retry' = [retry EXCEPT !.attempts = @ + 1,
                                    !.flag_at_call = connected,
                                    !.read_for_call = retry.flag_at_check,
                                    !.last = pub.count,
                                    !.gap = pub.count - retry.last,
                                    !.failed = (outcome # "ok")]
    /\ UNCHANGED <<pulseVars, powerVars, log_queue, connected>>

\* The queue of line 329 is written by two processes (lines 331-332). A put
\* hands the item to a feeder thread of the process that put it, and each
\* feeder writes its items to the one pipe in their order: what main reads is
\* some merge of the two processes' items, which keeps the order of each
\* process and not the order of the put calls across them.
Producers == {"monitor_shutdown", "monitor_pld"}

\* monitor_shutdown puts the events of lines 239 and 244 and nothing else;
\* every other item is put by monitor_pld
Producer(item) ==
    IF item \in {<<MQTT_ROOT \o "/event", EV_SHUTDOWN>>,
                 <<MQTT_ROOT \o "/event", EV_REBOOT>>}
    THEN "monitor_shutdown" ELSE "monitor_pld"

\* the places of the items of process p in q
Places(q, p) == {i \in 1..Len(q) : Producer(q[i]) = p}

Without(q, i) == SubSeq(q, 1, i - 1) \o SubSeq(q, i + 1, Len(q))

Oldest(q, p) == CHOOSE i \in Places(q, p) : \A j \in Places(q, p) : i <= j
Newest(q, p) == CHOOSE i \in Places(q, p) : \A j \in Places(q, p) : i >= j

\* x728ups.py line 345, log_queue.get(): the next item the pipe holds, which is
\* the oldest item of one of the processes (p), and what stays queued
get_newest(q, p) == [item |-> q[Newest(q, p)], rest |-> Without(q, Newest(q, p))]
get(q, p) == [item |-> q[Oldest(q, p)], rest |-> Without(q, Oldest(q, p))]

\* x728ups.py lines 345-347: block until an item is there, take it, publish it
\* (pub.published is the item handed to mqtt_client.publish last)
PUB_GetPublish ==
    /\ pub.pc = "get"
    /\ \E p \in Producers :
          /\ Places(log_queue, p) # {}
          /\ log_queue' = get(log_queue, p).rest
          /\ pub' = [pub EXCEPT !.pc = "top", !.published = get(log_queue, p).item]
    /\ UNCHANGED <<pulseVars, powerVars, connected, net, retry>>

\* network thread: the broker's CONNACK arrives and on_connect runs
NET_OnConnect ==
    /\ net.thread
    /\ net.link = "pending"
    /\ \E rc \in ConnackCodes :
          /\ connected' = on_connect(connected, rc)
          /\ net' = [net EXCEPT !.link = IF rc = 0 THEN "up" ELSE "down"]
          /\ retry' = [retry EXCEPT !.ever = @ \/ rc = 0]
    /\ UNCHANGED <<pulseVars, powerVars, log_queue, pub>>

\* network thread: the connection is lost and on_disconnect runs
NET_OnDisconnect ==
    /\ net.thread
    /\ net.link \in {"pending", "up"}
    /\ connected' = on_disconnect(connected)
    /\ net' = [net EXCEPT !.link = "down"]
    /\ UNCHANGED <<pulseVars, powerVars, log_queue, pub, retry>>

\* a monitor puts an item on the queue (log_event, log_data)
Produce ==
    /\ Len(log_queue) <= MaxQueue
    /\ \E item \in SampleItems : log_queue' = Append(log_queue, item)
    /\ UNCHANGED <<pulseVars, powerVars, mqttVars>>

----------------------------------------------------------------------------
Init ==
    /\ now_ms = 0
    /\ shutdown_line = [level |-> 0, rises |-> 0, moved |-> FALSE]
    /\ pm = [pc |-> "poll", pulse_start |-> 0, wake |-> 0, last_check |-> 0]
    /\ pulse_obs = NoObs
    /\ os_cmds = <<>>
    /\ log_queue = <<>>
    /\ now = 0
    /\ sup = [pc |-> "run", last_ups_detected |-> FALSE, last_pld |-> FALSE,
              wait_start |-> FLOAT_MAX, count |-> 0, calls |-> 0]
    /\ gpio = [boot_ok |-> 1, system |-> 0]
    /\ cyc = NoCycle
    /\ putting = <<>>
    /\ pub = [pc |-> "init", count |-> 0, published |-> <<>>]
    /\ connected = FALSE
    /\ net = [thread |-> FALSE, link |-> "none"]
    /\ retry = NoRetry

NextPulse ==
    \/ PM_Poll
    \/ PM_While
    \/ PM_Check
    \/ PM_ShutdownSync
    \/ PM_ShutdownCommand
    \/ PM_RebootSync
    \/ PM_RebootCommand
    \/ Tick
    \/ LineRise
    \/ LineFall

SpecPulse == Init /\ [][NextPulse]_vars

\* monitor_pld alone, over the first WindowPower seconds
NextPower ==
    \/ (now < WindowPower /\ SUP_Cycle)
    \/ SUP_Put
    \/ SUP_Request
    \/ SUP_Release

SpecPower == Init /\ [][NextPower]_vars

\* monitor_pld alone, over MaxSeconds seconds, in the runs with at most
\* CadenceIncidents incidents
Quiet ==
    Incidents(IF putting = <<>> THEN cyc ELSE putting[1].cyc) <= CadenceIncidents

NextCadence ==
    \/ (SUP_Cycle /\ Quiet')
    \/ (SUP_Put /\ Quiet')
    \/ SUP_Request
    \/ SUP_Release

SpecCadence == Init /\ [][NextCadence]_vars

NextMqtt ==
    \/ PUB_Init
    \/ PUB_Count
    \/ PUB_Check
    \/ PUB_Reconnect
    \/ PUB_GetPublish
    \/ NET_OnConnect
    \/ NET_OnDisconnect
    \/ Produce

SpecMqtt == Init /\ [][NextMqtt]_vars

\* Scheduling: main's thread and paho's network thread run whenever they can
\* (a step that stays possible is taken); the monitors are under no obligation
\* to put anything on the queue, and the broker is under none to drop a link
FairMqtt ==
    /\ WF_vars(PUB_Init)
    /\ WF_vars(PUB_Count)
    /\ WF_vars(PUB_Check)
    /\ WF_vars(PUB_Reconnect)
    /\ WF_vars(PUB_GetPublish)
    /\ WF_vars(NET_OnConnect)

SpecMqttLive == Init /\ [][NextMqtt]_vars /\ FairMqtt

\* The two processes started by main (lines 331-335) side by side, both
\* putting on the one queue. monitor_shutdown is followed over one pulse on
\* GPIO 5, raised before its first sample and released during any of its
\* sleeps of the first WindowMs milliseconds, with sleeps that return on time,
\* up to the classification of that pulse and the commands it leads to.
\* monitor_pld is followed over the cycles that start in the first
\* WindowSeconds seconds, in the steady runs: the device answers every probe,
\* no cycle is slow, and power is lost at most once, in one of the first two
\* cycles and for good; readings below the thresholds and failing reads come
\* at any cycle.
Steady ==
    LET c == IF putting = <<>> THEN cyc ELSE putting[1].cyc
    IN /\ c.slips = 0 /\ c.absents = 0
       /\ c.outages <= 1
       /\ c.outages = 1 => c.pld
       /\ (c.ran /\ c.present /\ c.pld) => c.last_good <= 0

NextSystem ==
    \/ PM_Poll
    \/ PM_While
    \/ PM_Check
    \/ PM_ShutdownSync
    \/ PM_ShutdownCommand
    \/ PM_RebootSync
    \/ PM_RebootCommand
    \/ (now_ms < WindowMs /\ now_ms < pm.wake /\ pulse_obs.outcome = "none" /\ Tick)
    \/ (shutdown_line.rises = 0 /\ now_ms = 0 /\ pm.wake = 0 /\ LineRise)
    \/ (pm.pc = "check" /\ LineFall)
    \/ (now < WindowSeconds /\ SUP_Cycle /\ Steady')
    \/ (SUP_Put /\ Steady')
    \/ SUP_Request
    \/ SUP_Release

SpecSystem == Init /\ [][NextSystem]_vars

\* the whole service: the two monitors and main with its network thread
Next ==
    \/ NextPulse
    \/ SUP_Cycle
    \/ SUP_Put
    \/ SUP_Request
    \/ SUP_Release
    \/ PUB_Init
    \/ PUB_Count
    \/ PUB_Check
    \/ PUB_Reconnect
    \/ PUB_GetPublish
    \/ NET_OnConnect
    \/ NET_OnDisconnect

Spec == Init /\ [][Next]_vars

----------------------------------------------------------------------------
(* monitor_shutdown: pulse classification (SpecPulse)                      *)
(*                                                                         *)
(* The duration of a pulse is the one monitor_shutdown measures: the clock *)
(* at the decision minus pulse_start.                                      *)

\* the line was seen to fall: the pulse was classified at line 243
FallSeen == pulse_obs.outcome \in {"discard", "reboot"}

\* the commands of do_reboot / do_shutdown run so far, by the position of
\* monitor_shutdown: none during the 5 s sleep, sync, then the command
CommandsRun(full) ==
    IF pm.pc \in {"shutdown_wait", "reboot_wait"} THEN <<>>
    ELSE IF pm.pc \in {"shutdown_sync", "reboot_sync"} THEN SubSeq(full, 1, 1)
    ELSE full

\* the reboot event was put once, and do_reboot follows the 5 s sleep
RebootTriggered ==
    /\ EventCount(EV_REBOOT) = 1
    /\ pm.pc \in {"reboot_wait", "reboot_sync", "halted"}
    /\ os_cmds = CommandsRun(do_reboot(<<>>))

\* the shutdown event was put once, and do_shutdown follows the 5 s sleep
ShutdownTriggered ==
    /\ EventCount(EV_SHUTDOWN) = 1
    /\ pm.pc \in {"shutdown_wait", "shutdown_sync", "halted"}
    /\ os_cmds = CommandsRun(do_shutdown(<<>>))

NoRebootTrigger ==
    /\ EventCount(EV_REBOOT) = 0
    /\ pm.pc \notin {"reboot_wait", "reboot_sync"}
    /\ CountIn(os_cmds, "sudo /sbin/shutdown -r now") = 0
NoShutdownTrigger ==
    /\ EventCount(EV_SHUTDOWN) = 0
    /\ pm.pc \notin {"shutdown_wait", "shutdown_sync"}
    /\ CountIn(os_cmds, "sudo /sbin/shutdown -h now") = 0

\* C1 as stated: every pulse of duration d with 200 <= d < 600 (d = 200
\* included) gives exactly one reboot trigger on the falling edge and no
\* shutdown trigger.
C1_RebootWindowClosedAt200 ==
    (FallSeen /\ pulse_obs.measured >= REBOOT_PULSE_MINIMUM
              /\ pulse_obs.measured < REBOOT_PULSE_MAXIMUM)
        => (pulse_obs.outcome = "reboot" /\ RebootTriggered /\ NoShutdownTrigger)

\* C1 amended: a pulse whose fall is seen, with d the duration measured at
\* line 243, gives exactly one reboot trigger and no shutdown trigger exactly
\* when d > 200, and no trigger at all when d <= 200 (d = 200 included). The
\* code puts no upper limit on d: what was at most 600 is the duration the
\* last test of line 238 compared, at an earlier reading of the clock.
C1_RebootWindow ==
    /\ (FallSeen /\ pulse_obs.measured > REBOOT_PULSE_MINIMUM)
          => (pulse_obs.outcome = "reboot" /\ RebootTriggered /\ NoShutdownTrigger)
    /\ (FallSeen /\ pulse_obs.measured <= REBOOT_PULSE_MINIMUM)
          => (pulse_obs.outcome = "discard" /\ NoRebootTrigger)
    /\ FallSeen => /\ pulse_obs.checked <= REBOOT_PULSE_MAXIMUM
                   /\ pulse_obs.checked <= pulse_obs.measured
    /\ EventCount(EV_REBOOT) <= 1
    /\ EventCount(EV_REBOOT) = 1 <=> pulse_obs.outcome = "reboot"

\* C1 witness: a pulse measured inside the window has rebooted the host, sync
\* first and the reboot command after it
C1_Witness ==
    /\ pulse_obs.outcome = "reboot"
    /\ pulse_obs.measured > REBOOT_PULSE_MINIMUM
    /\ pulse_obs.measured < REBOOT_PULSE_MAXIMUM
    /\ pm.pc = "halted"
    /\ os_cmds = <<"sync", "sudo /sbin/shutdown -r now">>

\* a fall seen with more than 600 ms on the clock of line 243 reboots: the
\* test of line 238 had read the clock earlier, at 600 ms or less
C1_RebootAbove600 ==
    /\ pulse_obs.outcome = "reboot"
    /\ pulse_obs.measured > REBOOT_PULSE_MAXIMUM
    /\ pm.pc = "halted"

\* C2 as stated: every pulse whose duration reaches d >= 600 gives exactly one
\* shutdown trigger and no reboot trigger, and the shutdown trigger fires while
\* the line is still high.
C2_ShutdownFrom600 ==
    /\ (pulse_obs.outcome # "none" /\ pulse_obs.measured >= REBOOT_PULSE_MAXIMUM)
          => (pulse_obs.outcome = "shutdown" /\ ShutdownTriggered /\ NoRebootTrigger)
    /\ pulse_obs.outcome = "shutdown" => pulse_obs.level = 1

\* C2 amended: the shutdown trigger fires exactly when, after a 20 ms sleep that
\* followed a sample reading high, the test of line 238 measures a duration
\* strictly above 600: every test that let the loop go on measured at most 600.
\* It fires once, at least 20 ms after the last sample that read high and
\* without the line being read again, and no reboot trigger occurs. A pulse
\* measured at exactly 600 when its fall is seen reboots.
C2_ShutdownAbove600 ==
    /\ EventCount(EV_SHUTDOWN) <= 1
    /\ EventCount(EV_SHUTDOWN) = 1 <=> pulse_obs.outcome = "shutdown"
    /\ pulse_obs.outcome = "shutdown" =>
          /\ pulse_obs.measured > REBOOT_PULSE_MAXIMUM
          /\ pulse_obs.checked <= REBOOT_PULSE_MAXIMUM
          /\ pulse_obs.measured - pulse_obs.high_el >= SAMPLE_SLEEP_MS
          /\ ShutdownTriggered
          /\ NoRebootTrigger
    /\ pm.pc \in {"while", "check"} => pm.last_check <= REBOOT_PULSE_MAXIMUM
    /\ (FallSeen /\ pulse_obs.measured = REBOOT_PULSE_MAXIMUM)
          => (pulse_obs.outcome = "reboot" /\ RebootTriggered)

\* C2 witness: the shutdown was triggered, and run, with the line still high
C2_Witness ==
    /\ pulse_obs.outcome = "shutdown"
    /\ pulse_obs.level = 1
    /\ shutdown_line.level = 1
    /\ pm.pc = "halted"
    /\ os_cmds = <<"sync", "sudo /sbin/shutdown -h now">>

----------------------------------------------------------------------------
(* monitor_pld: watermark, shutdown triggers, telemetry (SpecPower,        *)
(* SpecCadence)                                                            *)
(*                                                                         *)
(* cyc describes the last cycle run; once request_shutdown is called, or   *)
(* a read error has ended monitor_pld, no cycle follows, so cyc is then    *)
(* that last cycle.                                                        *)

Emitted(reason) == CountIn(cyc.emitted, <<MQTT_ROOT \o "/event", reason>>) > 0

\* request_shutdown was called and has not returned
ShutdownRequested == sup.calls = 1 /\ sup.pc \in {"requesting", "halted"}

\* the readings the last cycle obtained, against 3.6 V and 50 %
VoltageBelow == cyc.got >= 1 /\ cyc.voltage * 10 < 36 * VOLT_STEPS
CapacityBelow == cyc.got = 2 /\ cyc.capacity < 50 * PERCENT_STEPS

\* C4 as stated: in every cycle the watermark is changed if and only if the
\* power-loss line went from active at the previous reading to inactive now.
C4_WatermarkOnlyOnRestore ==
    cyc.ran => (cyc.wm_changed <=> (cyc.present /\ cyc.prev_pld /\ ~cyc.pld))

\* C4 amended: in every cycle the watermark is changed if and only if the UPS
\* is present and the power-loss line reads inactive in this cycle, whatever it
\* read before (steady good cycles included); it is then the current time. It
\* is unchanged in every cycle reading power loss and in every absent cycle.
C4_WatermarkOnEveryGoodCycle ==
    cyc.ran =>
        /\ cyc.wm_changed <=> (cyc.present /\ ~cyc.pld)
        /\ (cyc.present /\ ~cyc.pld) => sup.wait_start = cyc.t

\* C4 witness: a steady good cycle (power good before and now) moved the
\* watermark forward
C4_Witness ==
    /\ cyc.ran /\ cyc.present /\ ~cyc.pld /\ ~cyc.prev_pld
    /\ cyc.wm_changed /\ ~cyc.wm_lowered
    /\ cyc.t >= 2
    /\ sup.wait_start = cyc.t

\* C5 as stated: starting from its initial value, no cycle moves the watermark
\* backward.
C5_WatermarkNeverBackward == ~cyc.wm_lowered

\* an outage-based trigger: the outage event was queued by the last cycle
OutageFired == Emitted(EV_OUTAGE)

\* time.time() - wait_start as the last cycle found it on line 265, set
\* against SHUTDOWN_SECONDS: the whole seconds, and one more when the fraction
\* of a second decided
OutageAge == cyc.t - sup.wait_start + (IF cyc.edge THEN 1 ELSE 0)

\* the last cycle got both register words and went on to check_conditions
Checked == cyc.ran /\ cyc.present /\ cyc.got = 2

\* C6 as stated: in a cycle where the UPS is present, the outage trigger fires
\* if and only if the power-loss line reads active and the clock is more than
\* SHUTDOWN_SECONDS past the watermark.
C6_OutageTrigger ==
    (cyc.ran /\ cyc.present) =>
        (OutageFired <=> (cyc.pld /\ OutageAge > SHUTDOWN_SECONDS))

\* The part of C6 that holds: in a cycle that gets both register words, the
\* outage trigger fires if and only if the power-loss line reads active and
\* the clock of line 265 is more than 20 s past the watermark; when it fires,
\* the line has read active in every cycle since the last one that read it
\* inactive, and that cycle read the clock more than 20 s earlier (20 whole
\* seconds or more); a line read active for 21 whole seconds or more has fired
\* it; it never fires less than 20 s after a cycle that read the line
\* inactive, nor in an absent cycle or in one that a read error ended.
C6_OutageTriggerOnceRead ==
    /\ Checked => (OutageFired <=> (cyc.pld /\ OutageAge > SHUTDOWN_SECONDS))
    /\ OutageFired =>
          /\ Checked /\ cyc.pld
          /\ cyc.last_good >= 0
          /\ sup.wait_start = cyc.last_good
          /\ cyc.t - cyc.last_good >= SHUTDOWN_SECONDS
          /\ ShutdownRequested
    /\ (Checked /\ cyc.pld /\ cyc.last_good >= 0
          /\ cyc.t - cyc.last_good > SHUTDOWN_SECONDS) => OutageFired
    /\ (Checked /\ cyc.pld /\ cyc.last_good >= 0
          /\ cyc.t - cyc.last_good < SHUTDOWN_SECONDS) => ~OutageFired

\* a run in which C6_OutageTriggerOnceRead is at work: the outage trigger
\* fired in the 20th cycle after the one that read power good, the clock a
\* fraction of a second more than 20 s past the watermark
C6_FiredAtCycle20 ==
    /\ OutageFired
    /\ cyc.run = SHUTDOWN_SECONDS
    /\ cyc.t - sup.wait_start = SHUTDOWN_SECONDS
    /\ cyc.edge
    /\ ~VoltageBelow /\ ~CapacityBelow
    /\ sup.pc = "halted"

\* C7 as stated: in a run of consecutive cycles reading power loss (UPS
\* present, voltage and capacity above their thresholds), begun at the first
\* cycle after start or after a cycle reading power good, cycle 1 emits the
\* power-loss event, cycles 1..20 do not call request_shutdown and cycle 21 does.
C7_ShutdownAtCycle21 ==
    (cyc.run >= 1 /\ cyc.got = 2 /\ ~VoltageBelow /\ ~CapacityBelow) =>
        /\ cyc.run = 1 => Emitted(EV_POWER_LOSS)
        /\ cyc.run <= SHUTDOWN_SECONDS => sup.calls = 0
        /\ cyc.run = SHUTDOWN_SECONDS + 1 => (OutageFired /\ ShutdownRequested)

\* C8 as stated: request_shutdown is called at most once; in a cycle where
\* the UPS is present it is called when the voltage is below 3.6 V and when
\* the capacity is below 50 %, whatever the power-loss state, the outage age
\* and the other reading; with power good and both readings at or above their
\* thresholds it is not called.
C8_LowBatteryTriggers ==
    /\ sup.calls <= 1
    /\ (cyc.ran /\ cyc.present /\ VoltageBelow) => ShutdownRequested
    /\ (cyc.ran /\ cyc.present /\ CapacityBelow) => ShutdownRequested
    /\ (cyc.ran /\ cyc.present /\ ~cyc.pld /\ cyc.got = 2
          /\ ~VoltageBelow /\ ~CapacityBelow)
          => (sup.calls = 0 /\ sup.pc = "run")

\* The part of C8 that holds: request_shutdown is called at most once; a cycle
\* that gets both register words calls it when the voltage is below 3.6 V and
\* when the capacity is below 50 %, whatever the power-loss state, the outage
\* age and the other reading, after queueing the reason of the first test
\* that succeeds; with power good and both readings at or above their
\* thresholds it does not call it. A cycle that a read error ends calls
\* nothing.
C8_LowBatteryTriggersOnceRead ==
    /\ sup.calls <= 1
    /\ (Checked /\ VoltageBelow) => ShutdownRequested
    /\ (Checked /\ CapacityBelow) => ShutdownRequested
    /\ (Checked /\ VoltageBelow /\ ~OutageFired)
          => Emitted(EV_LOW_VOLTAGE(cyc.voltage))
    /\ (Checked /\ CapacityBelow /\ ~VoltageBelow /\ ~OutageFired)
          => Emitted(EV_LOW_CAPACITY(cyc.capacity))
    /\ (Checked /\ ~cyc.pld /\ ~VoltageBelow /\ ~CapacityBelow)
          => (sup.calls = 0 /\ sup.pc = "run")
    /\ (cyc.ran /\ cyc.present /\ cyc.got < 2) =>
          (sup.calls = 0 /\ sup.pc = "raised" /\ gpio.system = 0)

\* a run in which C8_LowBatteryTriggersOnceRead is at work: low voltage alone
\* (power good, capacity fine) requested shutdown
C8_LowVoltageAlone ==
    /\ Checked /\ ~cyc.pld
    /\ VoltageBelow /\ ~CapacityBelow
    /\ Emitted(EV_LOW_VOLTAGE(cyc.voltage))
    /\ Emitted("Voltage 3.60V below threshold 3.60V - request shutdown now")
    /\ sup.calls = 1
    /\ sup.pc = "halted"
    /\ gpio.system = 0

\* the last cycle queued the voltage and the capacity reading
Telemetry ==
    /\ CountIn(cyc.emitted, <<MQTT_ROOT \o "/voltage", cyc.voltage>>) = 1
    /\ CountIn(cyc.emitted, <<MQTT_ROOT \o "/capacity", cyc.capacity>>) = 1
NoTelemetry ==
    \A i \in 1..Len(cyc.emitted) : cyc.emitted[i][1] = MQTT_ROOT \o "/event"

\* C9 as stated: a cycle emits telemetry exactly when its count is a multiple
\* of 60, independently of the presence and shutdown-trigger steps.
C9_TelemetryOnMultiples ==
    cyc.ran => (Telemetry <=> cyc.count_before % DATA_SEND_PERIOD = 0)

\* C9 amended: a cycle emits the voltage and capacity events exactly when the
\* UPS is present in it, both register reads return, no shutdown trigger fires
\* in it, and the count of earlier cycles that ran to their end with the UPS
\* present is a multiple of 60; otherwise (a cycle that a read error ends
\* included) it emits neither.
C9_TelemetryCadence ==
    cyc.ran =>
        /\ Telemetry <=> (/\ cyc.present
                          /\ cyc.got = 2
                          /\ sup.calls = 0
                          /\ cyc.count_before % DATA_SEND_PERIOD = 0)
        /\ Telemetry \/ NoTelemetry

\* C9 witness: telemetry emitted by the cycle that found count = 60
C9_Witness ==
    /\ cyc.ran /\ Telemetry
    /\ cyc.count_before = DATA_SEND_PERIOD
    /\ sup.count = DATA_SEND_PERIOD + 1

\* the last cycle queued this event exactly once
EmittedOnce(reason) ==
    CountIn(cyc.emitted, <<MQTT_ROOT \o "/event", reason>>) = 1

\* C15: 'UPS detected' is queued, once, exactly by the cycles whose probe
\* succeeds after a cycle whose probe failed (or as the first cycle), 'UPS not
\* detected' exactly by the cycles whose probe fails after one whose probe
\* succeeded; each presence event follows one of the other kind ('UPS
\* detected' comes first); a cycle whose probe fails queues nothing else,
\* calls nothing, and leaves wait_start, last_pld and count as they were.
C15_PresenceHandling ==
    cyc.ran =>
        /\ Emitted(EV_UPS_DETECTED) <=> (cyc.present /\ ~cyc.prev_present)
        /\ Emitted(EV_UPS_NOT_DETECTED) <=> (~cyc.present /\ cyc.prev_present)
        /\ Emitted(EV_UPS_DETECTED) =>
              (EmittedOnce(EV_UPS_DETECTED)
                  /\ cyc.prev_presence_ev \in {"none", EV_UPS_NOT_DETECTED})
        /\ Emitted(EV_UPS_NOT_DETECTED) =>
              (EmittedOnce(EV_UPS_NOT_DETECTED)
                  /\ cyc.prev_presence_ev = EV_UPS_DETECTED)
        /\ ~cyc.present =>
              /\ cyc.emitted \in {<<>>, log_event(<<>>, EV_UPS_NOT_DETECTED)}
              /\ ~cyc.wm_changed
              /\ sup.last_pld = cyc.prev_eval
              /\ sup.count = cyc.count_before
              /\ sup.calls = 0 /\ sup.pc = "run" /\ gpio.system = 0

\* C15 witness: a second absent cycle in a row, after 'UPS not detected' was
\* queued by the first, queues nothing, with a power loss remembered
C15_Witness ==
    /\ cyc.ran /\ ~cyc.present /\ ~cyc.prev_present
    /\ cyc.prev_presence_ev = EV_UPS_NOT_DETECTED
    /\ cyc.emitted = <<>>
    /\ sup.last_pld /\ sup.wait_start < cyc.t

\* C16: among the cycles that read the power-loss line, 'power loss' is
\* queued exactly by those that read it active after the previous such cycle
\* read it inactive (or as the first), and such a cycle leaves wait_start as it
\* was; 'power restored' is queued exactly by those that read it inactive
\* after the previous such cycle read it active, and such a cycle sets
\* wait_start to the current time; the two events alternate, 'power loss'
\* first; a cycle whose probe fails queues neither.
C16_PowerStateEvents ==
    /\ (cyc.ran /\ cyc.present) =>
          /\ Emitted(EV_POWER_LOSS) <=> (cyc.pld /\ ~cyc.prev_eval)
          /\ Emitted(EV_POWER_RESTORED) <=> (~cyc.pld /\ cyc.prev_eval)
          /\ Emitted(EV_POWER_LOSS) =>
                /\ EmittedOnce(EV_POWER_LOSS)
                /\ ~cyc.wm_changed
                /\ cyc.prev_power_ev \in {"none", EV_POWER_RESTORED}
          /\ Emitted(EV_POWER_RESTORED) =>
                /\ EmittedOnce(EV_POWER_RESTORED)
                /\ sup.wait_start = cyc.t
                /\ cyc.prev_power_ev = EV_POWER_LOSS
    /\ (cyc.ran /\ ~cyc.present) =>
          (~Emitted(EV_POWER_LOSS) /\ ~Emitted(EV_POWER_RESTORED))

\* C16 witness: the second power loss, after a loss and a restoration, is
\* announced without moving the watermark set by the last good cycle
C16_Witness ==
    /\ cyc.ran /\ cyc.present /\ cyc.pld
    /\ Emitted(EV_POWER_LOSS)
    /\ cyc.prev_power_ev = EV_POWER_RESTORED
    /\ cyc.outages = 2
    /\ ~cyc.wm_changed
    /\ sup.wait_start = cyc.last_good /\ sup.wait_start < cyc.t

\* C20 as stated: count grows by one exactly in the cycles that find the UPS
\* present and call no request_shutdown, and is otherwise unchanged, so it is
\* the number of such cycles so far; the first of them, and then every 60th
\* one after it, queues telemetry, the voltage item directly followed by the
\* capacity item; a cycle that calls request_shutdown and a cycle whose probe
\* fails queue none.
C20_TelemetryCounter ==
    cyc.ran =>
        /\ sup.count = cyc.count_before
                          + (IF cyc.present /\ sup.calls = 0 THEN 1 ELSE 0)
        /\ (cyc.present /\ sup.calls = 0) =>
              (Telemetry <=> cyc.count_before % DATA_SEND_PERIOD = 0)
        /\ Telemetry =>
              /\ Len(cyc.emitted) >= 2
              /\ cyc.emitted[Len(cyc.emitted) - 1]
                    = <<MQTT_ROOT \o "/voltage", cyc.voltage>>
              /\ cyc.emitted[Len(cyc.emitted)]
                    = <<MQTT_ROOT \o "/capacity", cyc.capacity>>
        /\ (sup.calls > 0 \/ ~cyc.present) => NoTelemetry

\* The part of C20 that holds: count grows by one exactly in the cycles that
\* find the UPS present, get both register words and call no
\* request_shutdown, and is otherwise unchanged, so it is the number of such
\* cycles so far; the first of them, and then every 60th one after it, queues
\* telemetry, the voltage item directly followed by the capacity item as the
\* last two items of the cycle; a cycle that calls request_shutdown, a cycle
\* whose probe fails and a cycle that a read error ends queue none.
C20_TelemetryCounterOnceRead ==
    cyc.ran =>
        /\ sup.count = cyc.count_before
                          + (IF Checked /\ sup.calls = 0 THEN 1 ELSE 0)
        /\ sup.count = cyc.done
        /\ (Checked /\ sup.calls = 0) =>
              (Telemetry <=> (cyc.done - 1) % DATA_SEND_PERIOD = 0)
        /\ Telemetry =>
              /\ Len(cyc.emitted) >= 2
              /\ cyc.emitted[Len(cyc.emitted) - 1]
                    = <<MQTT_ROOT \o "/voltage", cyc.voltage>>
              /\ cyc.emitted[Len(cyc.emitted)]
                    = <<MQTT_ROOT \o "/capacity", cyc.capacity>>
        /\ (sup.calls > 0 \/ ~Checked) => NoTelemetry

\* a run in which C20_TelemetryCounterOnceRead is at work: with a failed probe
\* in between, the 61st cycle that found the UPS present, the 62nd cycle in
\* all, queues telemetry
C20_SecondTelemetry ==
    /\ cyc.ran /\ cyc.present /\ Telemetry
    /\ cyc.done = DATA_SEND_PERIOD + 1
    /\ cyc.absents = 1
    /\ cyc.t = DATA_SEND_PERIOD + 1

----------------------------------------------------------------------------
(* Reconnect cadence (SpecMqtt)                                            *)

\* C10 as stated: under every interleaving with on_connect and on_disconnect,
\* reconnect() is called only at a moment when the flag says Disconnected, at
\* most once in any 600 consecutive iterations, and 600 iterations while
\* disconnected give exactly one call.
C10_ReconnectOnlyWhileDisconnected ==
    /\ retry.attempts > 0 => ~retry.flag_at_call
    /\ retry.attempts >= 2 => retry.gap >= MQTT_RETRY_PERIOD
    /\ (~retry.ever /\ pub.count = MQTT_RETRY_PERIOD) => retry.attempts = 1

\* C10 amended: reconnect() is called only in an iteration whose count is 599
\* modulo 600 and only after line 63 of mqtt.py read the flag as not connected
\* in that iteration (on_connect may set the flag between that read and the
\* call); two calls are at least 600 iterations apart, so any 600 consecutive
\* iterations hold at most one; and as long as the flag was never set, every
\* 600 iterations give exactly one call.
C10_ReconnectCadence ==
    /\ pub.pc = "call" => (~retry.flag_at_check /\ RetryDue(pub.count))
    /\ retry.attempts > 0 =>
          /\ ~retry.read_for_call
          /\ retry.last % MQTT_RETRY_PERIOD = MQTT_RETRY_PERIOD - 1
    /\ retry.attempts >= 2 => retry.gap >= MQTT_RETRY_PERIOD
    /\ retry.attempts <= (pub.count + 1) \div MQTT_RETRY_PERIOD
    /\ (~retry.ever /\ pub.pc \notin {"check", "call"})
          => retry.attempts = (pub.count + 1) \div MQTT_RETRY_PERIOD

\* C10 witness: 1200 iterations with the flag never set, two calls 600 apart
C10_Witness ==
    /\ ~retry.ever /\ ~connected
    /\ pub.count = 2 * MQTT_RETRY_PERIOD
    /\ retry.attempts = 2
    /\ retry.gap = MQTT_RETRY_PERIOD
    /\ retry.last = 2 * MQTT_RETRY_PERIOD - 1

----------------------------------------------------------------------------
(* mqtt.connected and its writers (SpecMqtt)                               *)

\* C11 as stated: after every failed reconnect attempt the flag says
\* Disconnected.
C11_FailedReconnectDisconnects == retry.failed => ~connected

\* C11 amended: the flag starts not connected and has two writers only, both
\* callbacks of the network thread: a step that sets it is on_connect with
\* rc = 0 (the pending link comes up), a step that clears it is on_disconnect
\* (the link goes down, the publisher does not move), and on_disconnect leaves
\* it cleared whenever an established link is lost; mqtt.init,
\* attempt_mqtt_reconnect (whether reconnect() returns or raises) and the rest
\* of the publisher loop never write it, so a failed reconnect leaves it as it
\* was.
C11_FlagWriters ==
    [][ /\ (~connected /\ connected') =>
              (net.thread /\ net.link = "pending" /\ net'.link = "up" /\ pub' = pub)
        /\ (connected /\ ~connected') =>
              (net.thread /\ net.link \in {"pending", "up"} /\ net'.link = "down"
                  /\ pub' = pub)
        /\ (net.link = "up" /\ net'.link = "down" /\ pub' = pub) => ~connected'
        /\ pub' # pub => connected' = connected
        /\ ~retry.ever => ~connected
      ]_vars

\* C11 witness: reconnect() raised while the flag said connected, and the flag
\* still says so
C11_Witness ==
    /\ retry.failed
    /\ retry.flag_at_call
    /\ connected
    /\ net.link = "down"
    /\ pub.pc = "get"

----------------------------------------------------------------------------
(* Connection failures and the retry window (SpecMqtt, SpecMqttLive)       *)

\* C17 as stated: whatever way a connect or reconnect fails, the publisher
\* loop does not end.
C17_PublisherSurvivesFailure == pub.pc # "crashed"

\* C18 as stated: the iteration counter advances with or without events, so
\* with the flag staying not connected a reconnect attempt is eventually made
\* even if the monitors queue nothing more (runs in which main has ended on an
\* exception set aside).
C18_ReconnectWithoutTraffic ==
    <>(retry.attempts > 0 \/ connected \/ pub.pc = "crashed")

----------------------------------------------------------------------------
(* The queue between the monitors and the publisher (SpecMqtt)             *)

\* C13 as stated: no event put on the queue is lost: none is left on the queue
\* with no publisher loop to take it.
C13_NoEventStranded == pub.pc = "crashed" => log_queue = <<>>

\* The order-preserving part of C13, which holds: a put appends behind what is
\* queued, only the publisher's get takes an item off, it takes one item, an
\* item with no older item of the same process queued, and hands exactly that
\* one to publish, once. Across the two processes the order of the puts is not
\* kept (C13_PutOrderKept fails).
C13_FifoPerProducer ==
    [][ /\ Len(log_queue') > Len(log_queue) =>
              (SubSeq(log_queue', 1, Len(log_queue)) = log_queue /\ pub' = pub)
        /\ Len(log_queue') = Len(log_queue) => log_queue' = log_queue
        /\ Len(log_queue') < Len(log_queue) =>
              /\ pub.pc = "get" /\ pub'.pc = "top"
              /\ \E i \in 1..Len(log_queue) :
                    /\ pub'.published = log_queue[i]
                    /\ log_queue' = Without(log_queue, i)
                    /\ \A j \in 1..(i - 1) :
                          Producer(log_queue[j]) # Producer(log_queue[i])
        /\ pub'.published # pub.published => Len(log_queue') = Len(log_queue) - 1
      ]_vars

\* every get takes the item put first
C13_PutOrderKept ==
    [][Len(log_queue') < Len(log_queue) => log_queue' = Tail(log_queue)]_vars

----------------------------------------------------------------------------
(* The two monitors side by side (SpecSystem)                              *)

\* a trigger of monitor_shutdown: the pulse was classified as shutdown or reboot
PulseTriggered == pulse_obs.outcome \in {"shutdown", "reboot"}

\* monitor_shutdown is past its trigger: in the 5 s sleep or spinning
PulseStopped ==
    pm.pc \in {"shutdown_wait", "shutdown_sync", "reboot_wait", "reboot_sync",
               "halted"}

\* where monitor_shutdown goes from a position past its trigger
AfterTrigger(pc) ==
    IF pc = "shutdown_wait" THEN "shutdown_sync"
    ELSE IF pc = "reboot_wait" THEN "reboot_sync"
    ELSE "halted"

\* the commands of the trigger of monitor_shutdown
TriggerCommands ==
    IF pulse_obs.outcome = "shutdown" THEN do_shutdown(<<>>) ELSE do_reboot(<<>>)

\* C12 as stated: once either monitor has triggered, nothing fires anywhere,
\* so the process sees at most one shutdown/reboot trigger.
C12_SingleTriggerPerProcess ==
    sup.calls + (IF PulseTriggered THEN 1 ELSE 0) <= 1

\* C12 amended: the routine that triggers never returns and its own monitor
\* does nothing more: after request_shutdown monitor_pld runs no cycle (it
\* reads nothing, queues nothing, calls nothing), after its trigger
\* monitor_shutdown samples and times nothing, queues nothing and runs only the
\* commands of that trigger, one per step and each once (sync, then the
\* shutdown or reboot command); every item queued comes from a monitor that has
\* not triggered; each monitor triggers at most once. The other monitor is not
\* stopped.
C12_TriggeringMonitorStops ==
    [][ /\ sup.pc # "run" =>
              /\ cyc' = cyc
              /\ sup'.pc # "run"
              /\ sup'.calls = sup.calls /\ sup'.count = sup.count
              /\ sup'.wait_start = sup.wait_start /\ sup'.last_pld = sup.last_pld
        /\ PulseStopped =>
              /\ pulse_obs' = pulse_obs
              /\ pm'.pc \in {pm.pc, AfterTrigger(pm.pc)}
              /\ pm'.pulse_start = pm.pulse_start /\ pm'.wake = pm.wake
        /\ pm.pc = "halted" => os_cmds' = os_cmds
        /\ os_cmds' # os_cmds =>
              /\ PulseTriggered
              /\ Len(os_cmds) < Len(TriggerCommands)
              /\ os_cmds = SubSeq(TriggerCommands, 1, Len(os_cmds))
              /\ os_cmds' = SubSeq(TriggerCommands, 1, Len(os_cmds) + 1)
        /\ Len(log_queue') > Len(log_queue) =>
              \/ (sup.pc = "run" /\ (cyc' # cyc \/ putting' # putting)
                                  /\ pm' = pm)
              \/ (~PulseStopped /\ pulse_obs' # pulse_obs /\ sup' = sup)
        /\ sup.calls <= 1 /\ sup'.calls <= 1
      ]_vars

\* C12 witness: monitor_pld requested the shutdown and spins, and
\* monitor_shutdown has also timed a pulse and halted the host
C12_Witness ==
    /\ sup.pc = "halted" /\ sup.calls = 1
    /\ pulse_obs.outcome = "shutdown"
    /\ pm.pc = "halted"
    /\ os_cmds = <<"sync", "sudo /sbin/shutdown -h now">>

\* C14: BOOT_OK is high in every state; SYSTEM is high exactly while
\* request_shutdown sleeps: it is raised by the one call, in the cycle that
\* called, released SYSTEM_SHUTDOWN_REQUEST_DURATION seconds later and low from
\* then on; without a call of request_shutdown it is low, whatever
\* monitor_shutdown has done.
C14_OutputLines ==
    /\ gpio.boot_ok = 1
    /\ gpio.system = 1 <=> sup.pc = "requesting"
    /\ sup.pc = "requesting" => (sup.calls = 1 /\ now = cyc.t)
    /\ sup.pc = "halted" =>
          /\ sup.calls = 1
          /\ gpio.system = 0
          /\ now = cyc.t + SYSTEM_SHUTDOWN_REQUEST_DURATION
    /\ sup.calls = 0 => (gpio.system = 0 /\ sup.pc \in {"run", "raised"})

\* C14 witness: SYSTEM was pulsed for 4 s and released, after monitor_shutdown
\* had rebooted the host without touching it
C14_Witness ==
    /\ pm.pc = "halted" /\ os_cmds = do_reboot(<<>>)
    /\ sup.pc = "halted"
    /\ now = cyc.t + SYSTEM_SHUTDOWN_REQUEST_DURATION
    /\ gpio = [boot_ok |-> 1, system |-> 0]

\* the events that announce a call of request_shutdown, for the readings of
\* a cycle
TriggerReasons(c) ==
    {EV_OUTAGE, EV_LOW_VOLTAGE(c.voltage), EV_LOW_CAPACITY(c.capacity)}

\* how many of them a sequence of items holds
TriggerEvents(q, c) ==
    CountIn(q, <<MQTT_ROOT \o "/event", EV_OUTAGE>>)
        + CountIn(q, <<MQTT_ROOT \o "/event", EV_LOW_VOLTAGE(c.voltage)>>)
        + CountIn(q, <<MQTT_ROOT \o "/event", EV_LOW_CAPACITY(c.capacity)>>)

\* what the cycle under way has put on the queue so far
PutSoFar == IF putting = <<>> THEN <<>> ELSE putting[1].put

\* C19: SYSTEM is driven high by a step of its own, which queues nothing,
\* after the cycle has made all its puts in earlier steps: the last of them is
\* the reason of the trigger, the only trigger event of the cycle, and the
\* cycle queues nothing after it (each put of a cycle is one step that appends
\* one item to the queue). When monitor_shutdown runs a command, its event was
\* put before: the step that entered the 5 s sleep put exactly that one event,
\* shutdown for a shutdown and reboot for a reboot, with no command run yet;
\* sync is run from that sleep and the shutdown or reboot command after sync,
\* and neither of these steps queues anything.
C19_EventBeforeAction ==
    [][ /\ (gpio.system = 0 /\ gpio'.system = 1) =>
              /\ putting # <<>>
              /\ putting[1].items = <<>>
              /\ PutSoFar # <<>>
              /\ PutSoFar[Len(PutSoFar)][1] = MQTT_ROOT \o "/event"
              /\ PutSoFar[Len(PutSoFar)][2] \in TriggerReasons(cyc')
              /\ TriggerEvents(PutSoFar, cyc') = 1
              /\ cyc'.emitted = PutSoFar
              /\ cyc'.at_request = PutSoFar
              /\ putting' = <<>>
              /\ log_queue' = log_queue
        /\ (putting' # <<>> /\ putting' # putting) =>
              /\ Len(PutSoFar') = Len(PutSoFar) + 1
              /\ SubSeq(PutSoFar', 1, Len(PutSoFar)) = PutSoFar
              /\ log_queue' = Append(log_queue, PutSoFar'[Len(PutSoFar')])
        /\ os_cmds' # os_cmds =>
              /\ log_queue' = log_queue
              /\ \/ /\ pm.pc = "shutdown_wait" /\ EventCount(EV_SHUTDOWN) = 1
                    /\ os_cmds = <<>> /\ os_cmds' = <<"sync">>
                 \/ /\ pm.pc = "shutdown_sync" /\ EventCount(EV_SHUTDOWN) = 1
                    /\ os_cmds = <<"sync">> /\ os_cmds' = do_shutdown(<<>>)
                 \/ /\ pm.pc = "reboot_wait" /\ EventCount(EV_REBOOT) = 1
                    /\ os_cmds = <<>> /\ os_cmds' = <<"sync">>
                 \/ /\ pm.pc = "reboot_sync" /\ EventCount(EV_REBOOT) = 1
                    /\ os_cmds = <<"sync">> /\ os_cmds' = do_reboot(<<>>)
        /\ (pm.pc # "shutdown_wait" /\ pm'.pc = "shutdown_wait") =>
              /\ log_queue' = log_event(log_queue, EV_SHUTDOWN)
              /\ os_cmds' = <<>>
        /\ (pm.pc # "reboot_wait" /\ pm'.pc = "reboot_wait") =>
              /\ log_queue' = log_event(log_queue, EV_REBOOT)
              /\ os_cmds' = <<>>
        /\ (pm.pc # "shutdown_sync" /\ pm'.pc = "shutdown_sync") =>
              pm.pc = "shutdown_wait"
        /\ (pm.pc # "reboot_sync" /\ pm'.pc = "reboot_sync") =>
              pm.pc = "reboot_wait"
        /\ (pm.pc # "halted" /\ pm'.pc = "halted") =>
              pm.pc \in {"shutdown_sync", "reboot_sync"}
      ]_vars

\* C19 witness: both triggers under way, each with its one event put first:
\* monitor_pld put the outage reason, 21 s into a power loss, and has driven
\* SYSTEM high; monitor_shutdown put its shutdown event, slept 5 s and has sync
\* running
C19_Witness ==
    /\ pm.pc = "shutdown_sync" /\ os_cmds = <<"sync">>
    /\ pulse_obs.outcome = "shutdown"
    /\ EventCount(EV_SHUTDOWN) = 1
    /\ sup.pc = "requesting" /\ gpio.system = 1
    /\ Emitted(EV_OUTAGE)
    /\ Emitted("Power loss detected for at least 20 seconds - request shutdown now")
    /\ EventCount(EV_OUTAGE) = 1
    /\ cyc.t - sup.wait_start > SHUTDOWN_SECONDS
    /\ cyc.at_request = cyc.emitted
    /\ TriggerEvents(cyc.emitted, cyc) = 1

====
